---- MODULE Spec2Model ----
(***************************************************************************)
(* The live voice chat controller of frontend/src/hooks/useLiveVoiceChat.ts *)
(* as a state machine: one hook instance (one mount of LiveChatModal), its  *)
(* React state (connectionStatus, conversationStatus), its refs, the        *)
(* WebSocket objects it creates, the playback pipeline and the asynchronous *)
(* startRecording invocations.  Every handler of the hook is one action;    *)
(* the browser (socket events, promise settlements, audio callbacks) is the *)
(* environment and is free to fire any event that the platform allows.      *)
(*                                                                         *)
(* The operations are those the hook returns (connect, disconnect,          *)
(* toggleRecording), callable in any state.  State updates are taken to be  *)
(* visible to the next handler that runs (a handler reads the status        *)
(* committed by the handler before it).                                     *)
(***************************************************************************)
EXTENDS Integers, Sequences, FiniteSets, TLC

\* ---------------------------------------------------------------- bounds
MaxSockets == 2      \* WebSocket objects the hook may create
MaxChunks  == 3      \* inbound audio chunks received over the run
MaxFrames  == 2      \* capture frames delivered to port.onmessage over the run
MaxStarts  == 2      \* startRecording invocations over the run
MaxInputs  == 4      \* chunks, frames and invocations together over the run
MaxBufferSize == 2   \* processorOptions.bufferSize of the audio processor
MaxQuantum == 2      \* samples in the channel of one process() callback
MaxSamples == 5      \* samples fed to the audio processor over the run
SampleDen  == 4      \* a sample is a multiple of 1/SampleDen

VARIABLES
  connectionStatus,     \* useState<ConnectionStatus>
  conversationStatus,   \* useState<ConversationStatus>
  sockets,              \* every WebSocket created: [rs, mustFail, sent]
  socketRef,            \* socketRef.current: 0 (null) or an index of sockets
  closeTask,            \* socket whose close event follows its error event
                        \* in the same browser task (0: none)
  playbackCtx,          \* playbackAudioContextRef.current
  playbackCloseThen,    \* a close().then of disconnect is pending
  audioQueue,           \* audioQueueRef.current: pending chunk ids
  isPlaying,            \* isPlayingRef.current
  renders,              \* renders in flight: [chunk, phase]
  nChunks,              \* chunks received so far (chunk ids are 1..nChunks)
  rec,                  \* startRecording invocations: [pc, stream, ctx,
                        \*   loaded, node, nodeCtx]
  mediaStreamRef,       \* mediaStreamRef.current: 0 or the invocation whose
                        \*   stream it holds
  recCtxRef,            \* recordingAudioContextRef.current, likewise
  nodeRef,              \* audioWorkletNodeRef.current, likewise
  nFrames,              \* frames delivered to port.onmessage so far
  renderLog,            \* history: the chunks whose render started, in order
  lastOp,               \* history: the call that ran last
  disc,                 \* history: what disconnect() calls found
  bufferSize,           \* AudioProcessor.bufferSize (0: no processor built)
  buffer,               \* AudioProcessor.buffer, the Int16Array
  bufferIndex,          \* AudioProcessor.bufferIndex
  posted,               \* the frames posted on the processor's port, in order
  fed,                  \* history: the samples process() consumed, in order
  props,                \* the props LiveChatModal was rendered with last
  closure,              \* what the handlers of the WebSocket close over:
                        \*   << >>, or the hook's parameters at connect()
  config                \* the config payloads sent by ws.onopen, in order

progVars == <<connectionStatus, conversationStatus, sockets, socketRef,
              closeTask, playbackCtx, playbackCloseThen, audioQueue,
              isPlaying, renders, nChunks, rec, mediaStreamRef, recCtxRef,
              nodeRef, nFrames>>

hookVars == <<connectionStatus, conversationStatus, sockets, socketRef,
              closeTask, playbackCtx, playbackCloseThen, audioQueue,
              isPlaying, renders, nChunks, rec, mediaStreamRef, recCtxRef,
              nodeRef, nFrames, renderLog, lastOp, disc>>

\* the fields of the audio processor (public/worklets/audio-processor.js)
encVars == <<bufferSize, buffer, bufferIndex, posted, fed>>

vars == <<connectionStatus, conversationStatus, sockets, socketRef,
          closeTask, playbackCtx, playbackCloseThen, audioQueue,
          isPlaying, renders, nChunks, rec, mediaStreamRef, recCtxRef,
          nodeRef, nFrames, renderLog, lastOp, disc,
          bufferSize, buffer, bufferIndex, posted, fed,
          props, closure, config>>

\* the props of LiveChatModal and what connect and ws.onopen make of them
cfgVars == <<props, closure, config>>

ConnectionStatus   == {"disconnected", "connecting", "connected", "error"}
ConversationStatus == {"idle", "recording", "processing", "speaking"}

ConfigMsg    == [type |-> "config", frame |-> 0]
AudioMsg(k)  == [type |-> "audio", frame |-> k]

\* History of the call that ran last: the three operations of the hook with
\* the status they branched on, the handler of an ignored message, and
\* "event" for every other handler of the browser's events.
Call(name, status) == [op |-> name, pre |-> status]
Event == Call("event", "-")

Range(s) == {s[i] : i \in 1..Len(s)}

\* the hook after its first render
HookInit ==
  /\ connectionStatus = "disconnected"
  /\ conversationStatus = "idle"
  /\ sockets = << >>
  /\ socketRef = 0
  /\ closeTask = 0
  /\ playbackCtx = "null"
  /\ playbackCloseThen = FALSE
  /\ audioQueue = << >>
  /\ isPlaying = FALSE
  /\ renders = {}
  /\ nChunks = 0
  /\ rec = << >>
  /\ mediaStreamRef = 0
  /\ recCtxRef = 0
  /\ nodeRef = 0
  /\ nFrames = 0
  /\ renderLog = << >>
  /\ lastOp = Call("init", "-")
  /\ disc = [called |-> FALSE, capture |-> FALSE, pending |-> {}]

\* no audio processor is followed sample by sample: the frames a worklet
\* node delivers to the hook are the steps portOnmessage
NoProcessor ==
  /\ bufferSize = 0
  /\ buffer = << >>
  /\ bufferIndex = 0
  /\ posted = << >>
  /\ fed = << >>

\* JavaScript values are written as their JSON text
Flags      == {"true", "false"}
SessionIds == {"\"s1\"", "\"s2\"", "\"s3\""}

\* the props of LiveChatModal (LiveChatModalProps)
Props == [isRagEnabled : Flags, isWebSearchEnabled : Flags,
          sessionId : SessionIds]

\* the payload of the handshake is not followed: ws.onopen sends ConfigMsg
NoModal ==
  /\ props = [isRagEnabled |-> "false", isWebSearchEnabled |-> "false",
              sessionId |-> "\"s1\""]
  /\ closure = << >>
  /\ config = << >>

Init == HookInit /\ NoProcessor /\ NoModal

\* The inputs of a run (chunks received, frames delivered, startRecording
\* invocations) are bounded one by one and together.
InputsLeft == nChunks + nFrames + Len(rec) < MaxInputs

\* The browser runs one task at a time: after a socket's error handler the
\* close handler of the same socket runs before anything else.
Free == closeTask = 0

\* ------------------------------------------------------- playback queue

\* A variant of Enqueue that puts the chunk at the head (unshift for push)
EnqueueAtHead(q, c) == <<c>> \o q

\* ws.onmessage: audioQueueRef.current.push(byteArray.buffer)
Enqueue(q, c) == Append(q, c)

\* A variant of PlaybackBusy that does not consult isPlayingRef
PlaybackBusyNoFlag(playing, q) == q = << >>

\* processAudioQueue, first line: the early return
PlaybackBusy(playing, q) == playing \/ q = << >>

\* A variant of processAudioQueue that starts the render without setting
\* the status
processAudioQueueSilent(st) ==
  IF PlaybackBusy(st.playing, st.q) THEN st
  ELSE LET c    == Head(st.q)
           rest == Tail(st.q)
       IN IF playbackCtx # "null"
          THEN [q       |-> rest,
                playing |-> TRUE,
                conv    |-> st.conv,
                renders |-> st.renders \cup {[chunk |-> c, phase |-> "decoding"]},
                log     |-> Append(st.log, c)]
          ELSE [q       |-> rest,
                playing |-> FALSE,
                conv    |-> IF rest = << >> THEN "idle" ELSE st.conv,
                renders |-> st.renders,
                log     |-> st.log]

\* processAudioQueue up to its first await, on the playback state
\* st = [q, playing, conv, renders, log].  The head chunk is shifted off the
\* list; with a playback context its decode starts (a render in flight),
\* without one the chunk is dropped on the else branch.
processAudioQueue(st) ==
  IF PlaybackBusy(st.playing, st.q) THEN st
  ELSE LET c    == Head(st.q)
           rest == Tail(st.q)
       IN IF playbackCtx # "null"
          THEN [q       |-> rest,
                playing |-> TRUE,
                conv    |-> "speaking",
                renders |-> st.renders \cup {[chunk |-> c, phase |-> "decoding"]},
                log     |-> Append(st.log, c)]
          ELSE [q       |-> rest,
                playing |-> FALSE,
                conv    |-> IF rest = << >> THEN "idle" ELSE "speaking",
                renders |-> st.renders,
                log     |-> st.log]

PlaybackState == [q |-> audioQueue, playing |-> isPlaying,
                  conv |-> conversationStatus, renders |-> renders,
                  log |-> renderLog]

SetPlayback(st) ==
  /\ audioQueue' = st.q
  /\ isPlaying' = st.playing
  /\ conversationStatus' = st.conv
  /\ renders' = st.renders
  /\ renderLog' = st.log

\* ------------------------------------------------------------ connection

\* A variant of ConnectRejected that does not consult socketRef
ConnectRejectedNoRef == connectionStatus = "connecting"

\* connect, first line: the early return
ConnectRejected == socketRef # 0 \/ connectionStatus = "connecting"

connect ==
  /\ Free
  /\ IF ConnectRejected
     THEN UNCHANGED <<connectionStatus, sockets, socketRef>>
     ELSE /\ Len(sockets) < MaxSockets
          /\ connectionStatus' = "connecting"
          /\ sockets' = Append(sockets, [rs |-> "CONNECTING", mustFail |-> FALSE,
                                         sent |-> << >>])
          /\ socketRef' = Len(sockets) + 1
  /\ lastOp' = Call("connect", connectionStatus)
  /\ UNCHANGED <<conversationStatus, closeTask, playbackCtx, playbackCloseThen,
                 audioQueue, isPlaying, renders, nChunks, rec, mediaStreamRef,
                 recCtxRef, nodeRef, nFrames, renderLog, disc>>
  /\ UNCHANGED encVars
  /\ UNCHANGED cfgVars

\* A variant of Handshake that sends nothing
HandshakeSkipped(sent) == sent

\* ws.onopen, ws.send(JSON.stringify({config: ...})): the send log of the
\* socket after the handshake
Handshake(sent) == Append(sent, ConfigMsg)

\* ws.onopen: the open event of socket s
onopen(s) ==
  /\ Free
  /\ sockets[s].rs = "CONNECTING"
  /\ sockets' = [sockets EXCEPT ![s].rs = "OPEN",
                                ![s].sent = Handshake(@)]
  /\ connectionStatus' = "connected"
  /\ conversationStatus' = "idle"
  /\ playbackCtx' = "running"
  /\ lastOp' = Event
  /\ UNCHANGED <<socketRef, closeTask, playbackCloseThen, audioQueue, isPlaying,
                 renders, nChunks, rec, mediaStreamRef, recCtxRef, nodeRef,
                 nFrames, renderLog, disc>>
  /\ UNCHANGED encVars
  /\ UNCHANGED cfgVars

\* ws.onmessage with an audio_chunk field: message events are delivered
\* only while the socket is OPEN
onmessageChunk(s) ==
  /\ Free
  /\ sockets[s].rs = "OPEN"
  /\ nChunks < MaxChunks /\ InputsLeft
  /\ nChunks' = nChunks + 1
  /\ SetPlayback(processAudioQueue(
        [PlaybackState EXCEPT !.q = Enqueue(audioQueue, nChunks + 1)]))
  /\ lastOp' = Event
  /\ UNCHANGED <<connectionStatus, sockets, socketRef, closeTask, playbackCtx,
                 playbackCloseThen, rec, mediaStreamRef, recCtxRef, nodeRef,
                 nFrames, disc>>
  /\ UNCHANGED encVars
  /\ UNCHANGED cfgVars

\* A variant of onmessageOther that resets the conversation on a message it
\* does not know
onmessageOtherResets(s) ==
  /\ Free
  /\ sockets[s].rs = "OPEN"
  /\ conversationStatus' = "idle"
  /\ lastOp' = Call("onmessageOther", "-")
  /\ UNCHANGED <<connectionStatus, sockets, socketRef, closeTask, playbackCtx,
                 playbackCloseThen, audioQueue, isPlaying, renders, nChunks,
                 rec, mediaStreamRef, recCtxRef, nodeRef, nFrames, renderLog,
                 disc>>
  /\ UNCHANGED encVars
  /\ UNCHANGED cfgVars

\* ws.onmessage with any other message (no audio_chunk field, an empty one,
\* or text that JSON.parse or atob rejects: the handler throws or falls
\* through before it touches any state)
onmessageOther(s) ==
  /\ Free
  /\ sockets[s].rs = "OPEN"
  /\ lastOp' = Call("onmessageOther", "-")
  /\ UNCHANGED <<progVars, renderLog, disc>>
  /\ UNCHANGED encVars
  /\ UNCHANGED cfgVars

\* ws.onerror: the connection of socket s failed.  The browser sets the
\* socket CLOSED, fires error and then close in the same task.
onerror(s) ==
  /\ Free
  /\ \/ sockets[s].rs \in {"CONNECTING", "OPEN"}
     \/ sockets[s].rs = "CLOSING" /\ sockets[s].mustFail
  /\ sockets' = [sockets EXCEPT ![s].rs = "CLOSED"]
  /\ connectionStatus' = "error"
  /\ closeTask' = s
  /\ lastOp' = Event
  /\ UNCHANGED <<conversationStatus, socketRef, playbackCtx, playbackCloseThen,
                 audioQueue, isPlaying, renders, nChunks, rec, mediaStreamRef,
                 recCtxRef, nodeRef, nFrames, renderLog, disc>>
  /\ UNCHANGED encVars
  /\ UNCHANGED cfgVars

\* A variant of onclose that leaves an 'error' status alone
oncloseKeepsError(s) ==
  /\ \/ closeTask = s
     \/ Free /\ sockets[s].rs \in {"OPEN", "CLOSING"} /\ ~sockets[s].mustFail
  /\ sockets' = [sockets EXCEPT ![s].rs = "CLOSED"]
  /\ connectionStatus' = IF connectionStatus = "error" THEN "error"
                         ELSE "disconnected"
  /\ closeTask' = 0
  /\ lastOp' = Event
  /\ UNCHANGED <<conversationStatus, socketRef, playbackCtx, playbackCloseThen,
                 audioQueue, isPlaying, renders, nChunks, rec, mediaStreamRef,
                 recCtxRef, nodeRef, nFrames, renderLog, disc>>
  /\ UNCHANGED encVars
  /\ UNCHANGED cfgVars

\* ws.onclose: the close event of socket s, after its error event or on a
\* clean close (remote close of an OPEN socket, or the end of a local close)
onclose(s) ==
  /\ \/ closeTask = s
     \/ Free /\ sockets[s].rs \in {"OPEN", "CLOSING"} /\ ~sockets[s].mustFail
  /\ sockets' = [sockets EXCEPT ![s].rs = "CLOSED"]
  /\ connectionStatus' = "disconnected"
  /\ closeTask' = 0
  /\ lastOp' = Event
  /\ UNCHANGED <<conversationStatus, socketRef, playbackCtx, playbackCloseThen,
                 audioQueue, isPlaying, renders, nChunks, rec, mediaStreamRef,
                 recCtxRef, nodeRef, nFrames, renderLog, disc>>
  /\ UNCHANGED encVars
  /\ UNCHANGED cfgVars

\* ---------------------------------------------------- render completions

\* decodeAudioData resolved for render r; createBufferSource, connect and
\* start went through, the source is playing
decodeResolved(r) ==
  /\ Free
  /\ r \in renders /\ r.phase = "decoding"
  /\ playbackCtx # "null"
  /\ renders' = (renders \ {r}) \cup {[r EXCEPT !.phase = "playing"]}
  /\ lastOp' = Event
  /\ UNCHANGED <<connectionStatus, conversationStatus, sockets, socketRef,
                 closeTask, playbackCtx, playbackCloseThen, audioQueue,
                 isPlaying, nChunks, rec, mediaStreamRef, recCtxRef, nodeRef,
                 nFrames, renderLog, disc>>
  /\ UNCHANGED encVars
  /\ UNCHANGED cfgVars

\* the catch block: decodeAudioData rejected, or a statement after it threw
\* (playbackAudioContextRef.current is null by then, or the context refuses)
decodeFailed(r) ==
  /\ Free
  /\ r \in renders /\ r.phase = "decoding"
  /\ renders' = renders \ {r}
  /\ isPlaying' = FALSE
  /\ conversationStatus' = "idle"
  /\ lastOp' = Event
  /\ UNCHANGED <<connectionStatus, sockets, socketRef, closeTask, playbackCtx,
                 playbackCloseThen, audioQueue, nChunks, rec, mediaStreamRef,
                 recCtxRef, nodeRef, nFrames, renderLog, disc>>
  /\ UNCHANGED encVars
  /\ UNCHANGED cfgVars

\* source.onended for render r
onended(r) ==
  /\ Free
  /\ r \in renders /\ r.phase = "playing"
  /\ LET done == [PlaybackState EXCEPT
                    !.playing = FALSE,
                    !.renders = renders \ {r}]
     IN IF Len(audioQueue) > 0
        THEN SetPlayback(processAudioQueue(done))
        ELSE SetPlayback([done EXCEPT !.conv = "idle"])
  /\ lastOp' = Event
  /\ UNCHANGED <<connectionStatus, sockets, socketRef, closeTask, playbackCtx,
                 playbackCloseThen, nChunks, rec, mediaStreamRef, recCtxRef,
                 nodeRef, nFrames, disc>>
  /\ UNCHANGED encVars
  /\ UNCHANGED cfgVars

\* the then-callback of playbackAudioContextRef.current.close() in disconnect
playbackCtxClosed ==
  /\ Free
  /\ playbackCloseThen
  /\ playbackCtx' = "null"
  /\ playbackCloseThen' = FALSE
  /\ lastOp' = Event
  /\ UNCHANGED <<connectionStatus, conversationStatus, sockets, socketRef,
                 closeTask, audioQueue, isPlaying, renders, nChunks, rec,
                 mediaStreamRef, recCtxRef, nodeRef, nFrames, renderLog, disc>>
  /\ UNCHANGED encVars
  /\ UNCHANGED cfgVars

\* -------------------------------------------------------------- recording

NewInvocation == [pc |-> "gum", stream |-> "none", ctx |-> "none",
                  loaded |-> FALSE, node |-> "none", nodeCtx |-> 0]

\* stopRecording on the invocation table: the tracks of the stream in
\* mediaStreamRef are stopped, the port of the node in audioWorkletNodeRef
\* is closed, close() is called on the context in recordingAudioContextRef
ReleaseCapture(r) ==
  [p \in 1..Len(r) |->
     [r[p] EXCEPT
        !.stream = IF p = mediaStreamRef /\ @ = "live" THEN "stopped" ELSE @,
        !.node   = IF p = nodeRef THEN "closed" ELSE @,
        !.ctx    = IF p = recCtxRef /\ @ = "running" THEN "closing" ELSE @]]

\* stopRecording
stopRecording ==
  /\ rec' = ReleaseCapture(rec)
  /\ nodeRef' = 0
  /\ conversationStatus' = "processing"
  /\ UNCHANGED <<mediaStreamRef, recCtxRef>>

\* startRecording up to its first await (getUserMedia)
startRecording ==
  IF nodeRef # 0
  THEN UNCHANGED <<rec, nodeRef, conversationStatus, mediaStreamRef, recCtxRef>>
  ELSE /\ Len(rec) < MaxStarts /\ InputsLeft
       /\ rec' = Append(rec, NewInvocation)
       /\ UNCHANGED <<nodeRef, conversationStatus, mediaStreamRef, recCtxRef>>

\* A variant of TogglesStart that also starts while the assistant speaks
TogglesStartWhileSpeaking == conversationStatus \in {"idle", "speaking"}

\* toggleRecording: which statuses start and which stop
TogglesStart == conversationStatus = "idle"
TogglesStop  == conversationStatus = "recording"

toggleRecording ==
  /\ Free
  /\ IF TogglesStart THEN startRecording
     ELSE IF TogglesStop THEN stopRecording
     ELSE UNCHANGED <<rec, nodeRef, conversationStatus, mediaStreamRef, recCtxRef>>
  /\ lastOp' = Call("toggleRecording", conversationStatus)
  /\ UNCHANGED <<connectionStatus, sockets, socketRef, closeTask, playbackCtx,
                 playbackCloseThen, audioQueue, isPlaying, renders, nChunks,
                 nFrames, renderLog, disc>>
  /\ UNCHANGED encVars
  /\ UNCHANGED cfgVars

\* getUserMedia resolved for invocation p: the stream and a new recording
\* context are stored in the refs, addModule is awaited
gumResolved(p) ==
  /\ Free
  /\ rec[p].pc = "gum"
  /\ rec' = [rec EXCEPT ![p].pc = "addModule", ![p].stream = "live",
                        ![p].ctx = "running"]
  /\ mediaStreamRef' = p
  /\ recCtxRef' = p
  /\ lastOp' = Event
  /\ UNCHANGED <<connectionStatus, conversationStatus, sockets, socketRef,
                 closeTask, playbackCtx, playbackCloseThen, audioQueue,
                 isPlaying, renders, nChunks, nodeRef, nFrames, renderLog, disc>>
  /\ UNCHANGED encVars
  /\ UNCHANGED cfgVars

\* A variant of gumRejected that starts over after the failure
gumRejectedRetries(p) ==
  /\ Free
  /\ rec[p].pc = "gum"
  /\ Len(rec) < MaxStarts
  /\ rec' = Append([rec EXCEPT ![p].pc = "failed"], NewInvocation)
  /\ lastOp' = Event
  /\ UNCHANGED <<connectionStatus, conversationStatus, sockets, socketRef,
                 closeTask, playbackCtx, playbackCloseThen, audioQueue,
                 isPlaying, renders, nChunks, mediaStreamRef, recCtxRef,
                 nodeRef, nFrames, renderLog, disc>>
  /\ UNCHANGED encVars
  /\ UNCHANGED cfgVars

\* getUserMedia rejected for invocation p: the catch block
gumRejected(p) ==
  /\ Free
  /\ rec[p].pc = "gum"
  /\ rec' = [rec EXCEPT ![p].pc = "failed"]
  /\ lastOp' = Event
  /\ UNCHANGED <<connectionStatus, conversationStatus, sockets, socketRef,
                 closeTask, playbackCtx, playbackCloseThen, audioQueue,
                 isPlaying, renders, nChunks, mediaStreamRef, recCtxRef,
                 nodeRef, nFrames, renderLog, disc>>
  /\ UNCHANGED encVars
  /\ UNCHANGED cfgVars

\* addModule resolved for invocation p: the worklet node is constructed on
\* the context recordingAudioContextRef.current holds NOW.  The constructor
\* throws when that is null or a context the module was not loaded into.
addModuleResolved(p) ==
  /\ Free
  /\ rec[p].pc = "addModule"
  /\ LET loadedNow == [rec EXCEPT ![p].loaded = TRUE]
     IN IF recCtxRef # 0 /\ loadedNow[recCtxRef].loaded
        THEN /\ rec' = [loadedNow EXCEPT ![p].pc = "ok", ![p].node = "open",
                                         ![p].nodeCtx = recCtxRef]
             /\ nodeRef' = p
             /\ conversationStatus' = "recording"
        ELSE /\ rec' = [loadedNow EXCEPT ![p].pc = "failed"]
             /\ UNCHANGED <<nodeRef, conversationStatus>>
  /\ lastOp' = Event
  /\ UNCHANGED <<connectionStatus, sockets, socketRef, closeTask, playbackCtx,
                 playbackCloseThen, audioQueue, isPlaying, renders, nChunks,
                 mediaStreamRef, recCtxRef, nFrames, renderLog, disc>>
  /\ UNCHANGED encVars
  /\ UNCHANGED cfgVars

\* addModule rejected for invocation p: the catch block
addModuleRejected(p) ==
  /\ Free
  /\ rec[p].pc = "addModule"
  /\ rec' = [rec EXCEPT ![p].pc = "failed"]
  /\ lastOp' = Event
  /\ UNCHANGED <<connectionStatus, conversationStatus, sockets, socketRef,
                 closeTask, playbackCtx, playbackCloseThen, audioQueue,
                 isPlaying, renders, nChunks, mediaStreamRef, recCtxRef,
                 nodeRef, nFrames, renderLog, disc>>
  /\ UNCHANGED encVars
  /\ UNCHANGED cfgVars

\* the then-callback of recordingAudioContextRef.current.close() in
\* stopRecording, for the context of invocation p
recCtxClosed(p) ==
  /\ Free
  /\ rec[p].ctx = "closing"
  /\ rec' = [rec EXCEPT ![p].ctx = "closed"]
  /\ recCtxRef' = 0
  /\ lastOp' = Event
  /\ UNCHANGED <<connectionStatus, conversationStatus, sockets, socketRef,
                 closeTask, playbackCtx, playbackCloseThen, audioQueue,
                 isPlaying, renders, nChunks, mediaStreamRef, nodeRef, nFrames,
                 renderLog, disc>>
  /\ UNCHANGED encVars
  /\ UNCHANGED cfgVars

\* A variant of FrameIsSent that does not read readyState
FrameIsSentUnchecked == socketRef # 0

\* workletNode.port.onmessage, the condition under which the frame is sent
FrameIsSent == socketRef # 0 /\ sockets[socketRef].rs = "OPEN"

\* A variant of portOnmessage that sends every frame twice
portOnmessageDuplicates(p) ==
  /\ Free
  /\ rec[p].node = "open"
  /\ rec[rec[p].nodeCtx].ctx \in {"running", "closing"}
  /\ nFrames < MaxFrames /\ InputsLeft
  /\ nFrames' = nFrames + 1
  /\ IF FrameIsSent
     THEN sockets' = [sockets EXCEPT ![socketRef].sent =
                        @ \o <<AudioMsg(nFrames + 1), AudioMsg(nFrames + 1)>>]
     ELSE UNCHANGED sockets
  /\ lastOp' = Event
  /\ UNCHANGED <<connectionStatus, conversationStatus, socketRef, closeTask,
                 playbackCtx, playbackCloseThen, audioQueue, isPlaying, renders,
                 nChunks, rec, mediaStreamRef, recCtxRef, nodeRef, renderLog,
                 disc>>
  /\ UNCHANGED encVars
  /\ UNCHANGED cfgVars

\* workletNode.port.onmessage for the node of invocation p: a frame posted
\* by the audio processor.  The port delivers only while it is open and the
\* node's context has not closed.
portOnmessage(p) ==
  /\ Free
  /\ rec[p].node = "open"
  /\ rec[rec[p].nodeCtx].ctx \in {"running", "closing"}
  /\ nFrames < MaxFrames /\ InputsLeft
  /\ nFrames' = nFrames + 1
  /\ IF FrameIsSent
     THEN sockets' = [sockets EXCEPT ![socketRef].sent = Append(@, AudioMsg(nFrames + 1))]
     ELSE UNCHANGED sockets
  /\ lastOp' = Event
  /\ UNCHANGED <<connectionStatus, conversationStatus, socketRef, closeTask,
                 playbackCtx, playbackCloseThen, audioQueue, isPlaying, renders,
                 nChunks, rec, mediaStreamRef, recCtxRef, nodeRef, renderLog,
                 disc>>
  /\ UNCHANGED encVars
  /\ UNCHANGED cfgVars

\* ------------------------------------------------------------- disconnect

\* socketRef.current?.close() on the socket table
CloseSocket(ss) ==
  IF socketRef = 0 THEN ss
  ELSE [ss EXCEPT ![socketRef] =
          IF @.rs = "CONNECTING" THEN [@ EXCEPT !.rs = "CLOSING", !.mustFail = TRUE]
          ELSE IF @.rs = "OPEN" THEN [@ EXCEPT !.rs = "CLOSING"]
          ELSE @]

disconnect ==
  /\ Free
  /\ stopRecording
  /\ sockets' = CloseSocket(sockets)
  /\ IF playbackCtx # "null"
     THEN playbackCtx' = "closing" /\ playbackCloseThen' = TRUE
     ELSE UNCHANGED <<playbackCtx, playbackCloseThen>>
  /\ disc' = [called  |-> TRUE,
              capture |-> disc.capture \/ nodeRef # 0,
              pending |-> disc.pending \cup Range(audioQueue)]
  /\ lastOp' = Call("disconnect", "-")
  /\ UNCHANGED <<connectionStatus, socketRef, closeTask, audioQueue, isPlaying,
                 renders, nChunks, nFrames, renderLog>>
  /\ UNCHANGED encVars
  /\ UNCHANGED cfgVars

\* -------------------------------------------------------- audio processor
\* public/worklets/audio-processor.js.  A sample is a float; the sample
\* [nan |-> FALSE, num |-> k] is the number k / SampleDen, and
\* [nan |-> TRUE, num |-> 0] is NaN.

ScaleNeg == 32768    \* 0x8000
ScalePos == 32767    \* 0x7FFF

Sample(k) == [nan |-> FALSE, num |-> k]
NaN       == [nan |-> TRUE, num |-> 0]

\* the samples a channel may hold: below -1, -1, between, 0, +1, above +1, NaN
Samples == {Sample(k) : k \in {-(SampleDen + 2), -SampleDen, -1, 0, 1,
                               SampleDen, SampleDen + 2}} \cup {NaN}

\* Math.max(-1, Math.min(1, x)) on the numerator of x
Clamp(k) ==
  LET lo == IF k < SampleDen THEN k ELSE SampleDen
  IN IF lo > -SampleDen THEN lo ELSE -SampleDen

\* the store of a number n / d into an Int16Array element: the fraction is
\* cut off towards zero and the integer wraps modulo 2^16
ToInt16(n, d) ==
  LET cut == IF n >= 0 THEN n \div d ELSE -((-n) \div d)
  IN ((cut + ScaleNeg) % (2 * ScaleNeg)) - ScaleNeg

\* A variant of Scale that scales every sample by 0x8000
ScaleAllBy8000(k) == k * ScaleNeg

\* s < 0 ? s * 0x8000 : s * 0x7FFF, on the numerator of s
Scale(k) == IF k < 0 THEN k * ScaleNeg ELSE k * ScalePos

\* the body of the loop up to the store: the Int16 value of one input sample
\* (NaN passes Math.max/Math.min and the comparison, and is stored as 0)
EncodeSample(x) ==
  IF x.nan THEN 0 ELSE ToInt16(Scale(Clamp(x.num)), SampleDen)

\* A variant of BufferFull that posts one sample early
BufferFullEarly(idx, size) == idx + 1 >= size

\* if (this.bufferIndex >= this.bufferSize)
BufferFull(idx, size) == idx >= size

\* the for loop of process over the channel ch from position i, on the
\* processor state st = [buffer, bufferIndex, posted]; element j of the
\* Int16Array is buffer[j + 1]
RECURSIVE EncodeLoop(_, _, _)
EncodeLoop(st, ch, i) ==
  IF i > Len(ch) THEN st
  ELSE LET b   == [st.buffer EXCEPT ![st.bufferIndex + 1] = EncodeSample(ch[i])]
           idx == st.bufferIndex + 1
       IN IF BufferFull(idx, bufferSize)
          THEN EncodeLoop([buffer |-> b, bufferIndex |-> 0,
                           posted |-> Append(st.posted, b)], ch, i + 1)
          ELSE EncodeLoop([buffer |-> b, bufferIndex |-> idx,
                           posted |-> st.posted], ch, i + 1)

\* the constructor: the hook builds the processor with
\* processorOptions.bufferSize (useLiveVoiceChat.ts line 149)
constructor(size) ==
  /\ bufferSize = size
  /\ buffer = [j \in 1..size |-> 0]
  /\ bufferIndex = 0
  /\ posted = << >>
  /\ fed = << >>

\* the channels of one callback: sequences of samples up to MaxQuantum long
Channels == UNION {[1..n -> Samples] : n \in 0..MaxQuantum}

\* process(inputs, ...): input = inputs[0] is a list of channels, empty when
\* nothing is connected; only the first channel is read
process(input) ==
  /\ bufferSize > 0
  /\ IF Len(input) > 0
     THEN LET ch == input[1]
              st == EncodeLoop([buffer |-> buffer, bufferIndex |-> bufferIndex,
                                posted |-> posted], ch, 1)
          IN /\ Len(fed) + Len(ch) <= MaxSamples
             /\ buffer' = st.buffer
             /\ bufferIndex' = st.bufferIndex
             /\ posted' = st.posted
             /\ fed' = fed \o ch
     ELSE UNCHANGED <<buffer, bufferIndex, posted, fed>>
  /\ UNCHANGED bufferSize
  /\ UNCHANGED hookVars
  /\ UNCHANGED cfgVars

\* -------------------------------------------------- the handshake payload
\* LiveChatModal renders the hook with its props; connect closes over the
\* hook's parameters of that render; ws.onopen sends them.

\* LiveChatModal: useLiveVoiceChat(isRagEnabled, isWebSearchEnabled, sessionId)
HookArgs(pr) == <<pr.isRagEnabled, pr.isWebSearchEnabled, pr.sessionId>>

\* useLiveVoiceChat = (isRagEnabled, sessionId) => ...: the parameters are
\* bound by position, a further argument is dropped
HookParams(args) == [isRagEnabled |-> args[1], sessionId |-> args[2]]

\* ws.onopen: the object under "config" in the message sent
ConfigPayload(params) ==
  [isRagEnabled |-> params.isRagEnabled, sessionId |-> params.sessionId]

\* LiveChatModal is rendered again with other props
modalRender(pr) ==
  /\ pr # props
  /\ props' = pr
  /\ UNCHANGED <<closure, config>>
  /\ UNCHANGED <<hookVars, encVars>>

\* the first connect() of the mount (the effect of LiveChatModal): the
\* handlers of the new socket close over the parameters of the last render;
\* a later connect() returns early
modalConnect ==
  /\ closure = << >>
  /\ closure' = <<[params |-> HookParams(HookArgs(props)), props |-> props]>>
  /\ UNCHANGED <<props, config>>
  /\ UNCHANGED <<hookVars, encVars>>

\* ws.onopen, the send of the config message
onopenConfig ==
  /\ closure # << >>
  /\ config = << >>
  /\ config' = <<ConfigPayload(closure[1].params)>>
  /\ UNCHANGED <<props, closure>>
  /\ UNCHANGED <<hookVars, encVars>>

\* ----------------------------------------------------------- the machine

Next ==
  \/ connect
  \/ disconnect
  \/ toggleRecording
  \/ \E s \in 1..Len(sockets) : onopen(s)
  \/ \E s \in 1..Len(sockets) : onmessageChunk(s)
  \/ \E s \in 1..Len(sockets) : onmessageOther(s)
  \/ \E s \in 1..Len(sockets) : onerror(s)
  \/ \E s \in 1..Len(sockets) : onclose(s)
  \/ \E r \in renders : decodeResolved(r)
  \/ \E r \in renders : decodeFailed(r)
  \/ \E r \in renders : onended(r)
  \/ playbackCtxClosed
  \/ \E p \in 1..Len(rec) : gumResolved(p)
  \/ \E p \in 1..Len(rec) : gumRejected(p)
  \/ \E p \in 1..Len(rec) : addModuleResolved(p)
  \/ \E p \in 1..Len(rec) : addModuleRejected(p)
  \/ \E p \in 1..Len(rec) : recCtxClosed(p)
  \/ \E p \in 1..Len(rec) : portOnmessage(p)

Spec == Init /\ [][Next]_vars

\* What the browser is bound to do sooner or later.  A render in flight
\* settles: its decode resolves or rejects, its playback ends.
RenderSettles ==
  \E r \in renders : decodeResolved(r) \/ decodeFailed(r) \/ onended(r)

\* The promises of startRecording and stopRecording settle.
CaptureSettles ==
  \E p \in 1..Len(rec) :
     \/ gumResolved(p) \/ gumRejected(p)
     \/ addModuleResolved(p) \/ addModuleRejected(p)
     \/ recCtxClosed(p)

\* A connection attempt ends (open or error), a close handshake ends, and
\* the close event follows the error event.
SocketSettles ==
  \E s \in 1..Len(sockets) :
     \/ sockets[s].rs = "CONNECTING" /\ (onopen(s) \/ onerror(s))
     \/ sockets[s].rs = "CLOSING" /\ (onclose(s) \/ onerror(s))
     \/ closeTask = s /\ onclose(s)

\* The machine with the browser's events delivered fairly.  Nothing obliges
\* the user to call an operation or the remote service to send a message.
LiveSpec ==
  /\ Spec
  /\ WF_vars(RenderSettles)
  /\ WF_vars(CaptureSettles)
  /\ WF_vars(SocketSettles)
  /\ WF_vars(playbackCtxClosed)

\* The audio processor on its own: one processor, built with any buffer
\* size, fed any sequence of callbacks.
EncInit ==
  /\ HookInit
  /\ NoModal
  /\ \E size \in 1..MaxBufferSize : constructor(size)

EncNext ==
  \/ \E ch \in Channels : process(<<ch>>)
  \/ process(<< >>)

EncSpec == EncInit /\ [][EncNext]_vars

\* The handshake payload on its own: the modal rendered with any props,
\* re-rendered at any time, connected once.
HandshakeInit ==
  /\ HookInit
  /\ NoProcessor
  /\ props \in Props
  /\ closure = << >>
  /\ config = << >>

HandshakeNext ==
  \/ \E pr \in Props : modalRender(pr)
  \/ modalConnect
  \/ onopenConfig

HandshakeSpec == HandshakeInit /\ [][HandshakeNext]_vars

TypeOK ==
  /\ connectionStatus \in ConnectionStatus
  /\ conversationStatus \in ConversationStatus
  /\ socketRef \in 0..Len(sockets)
  /\ closeTask \in 0..Len(sockets)
  /\ playbackCtx \in {"null", "running", "closing"}
  /\ isPlaying \in BOOLEAN
  /\ nChunks \in 0..MaxChunks
  /\ nFrames \in 0..MaxFrames
  /\ mediaStreamRef \in 0..Len(rec)
  /\ recCtxRef \in 0..Len(rec)
  /\ nodeRef \in 0..Len(rec)

\* ----------------------------------------------------------------- claims

SocketIds == 1..Len(sockets)

\* the audio messages sent on socket s, in send order
AudioSent(ss, s) == SelectSeq(ss[s].sent, LAMBDA m : m.type = "audio")

\* every socket has finished: closed, and its close event delivered
SessionOver == closeTask = 0 /\ \A s \in SocketIds : sockets[s].rs = "CLOSED"

\* C1: after disconnect() the controller ends with connectionStatus
\* 'disconnected' and conversationStatus 'idle', and no later event moves
\* an axis away again: both hold in every state in which disconnect has
\* been called on a session and every socket event of the session has been
\* delivered.
C1_DisconnectResetsBothAxes ==
  (disc.called /\ sockets # << >> /\ SessionOver) =>
     connectionStatus = "disconnected" /\ conversationStatus = "idle"

\* C2: right after disconnect() the pending chunk list is empty, and no
\* chunk that was pending at a disconnect is rendered afterwards.
C2_DisconnectClearsPending ==
  /\ lastOp.op = "disconnect" => audioQueue = << >>
  /\ \A r \in renders : r.chunk \notin disc.pending

\* C3: a disconnect() called while capture is active stops capture (no
\* microphone stream is left live, no worklet node is left with an open
\* port, audioWorkletNodeRef is null), and once such a disconnect has been
\* called no audio message is sent on any socket again, whatever frames the
\* worklets still deliver.
C3_DisconnectStopsCapture ==
  /\ []((lastOp.op = "disconnect" /\ disc.capture) =>
          /\ nodeRef = 0
          /\ \A p \in 1..Len(rec) : rec[p].stream # "live" /\ rec[p].node # "open")
  /\ [][disc.capture =>
          \A s \in SocketIds : AudioSent(sockets', s) = AudioSent(sockets, s)]_vars

\* C4: toggleRecording() called in 'processing' or 'speaking' changes
\* nothing: neither status, no ref, no socket (nothing is sent), not the
\* pending list nor the rendering flag.
C4_ToggleRejected ==
  [][(lastOp'.op = "toggleRecording" /\ lastOp'.pre \in {"processing", "speaking"})
       => UNCHANGED progVars]_vars

\* C4 witness: toggleRecording was called while a render was in flight in
\* status 'speaking'
C4_Witness ==
  /\ lastOp = Call("toggleRecording", "speaking")
  /\ conversationStatus = "speaking"
  /\ renders # {}

\* C5: the send log of every socket that opened starts with the one
\* handshake message and holds only audio messages after it, and
\* connectionStatus is 'connected' only when the handshake has been sent on
\* the socket in socketRef.
C5_HandshakeFirst ==
  /\ \A s \in SocketIds :
       LET m == sockets[s].sent
       IN (sockets[s].rs = "OPEN" \/ m # << >>) =>
            /\ m # << >>
            /\ m[1] = ConfigMsg
            /\ \A i \in 2..Len(m) : m[i].type = "audio"
  /\ connectionStatus = "connected" =>
       socketRef # 0 /\ sockets[socketRef].sent # << >>

\* C5 witness: recording was toggled before the socket opened: frame 1 was
\* delivered first and dropped, the handshake went out on open, frame 2
\* followed it
C5_Witness ==
  \E s \in SocketIds : sockets[s].sent = <<ConfigMsg, AudioMsg(2)>>

\* C6: connect() called in 'connecting' or 'connected' changes nothing, and
\* at most one socket is CONNECTING or OPEN at any time.
C6_ConnectOnce ==
  /\ [](Cardinality({s \in SocketIds : sockets[s].rs \in {"CONNECTING", "OPEN"}}) <= 1)
  /\ [][(lastOp'.op = "connect" /\ lastOp'.pre \in {"connecting", "connected"})
          => UNCHANGED progVars]_vars

\* C6 witness: connect was called while the connection was open
C6_Witness ==
  /\ lastOp = Call("connect", "connected")
  /\ socketRef # 0 /\ sockets[socketRef].rs = "OPEN"

\* C7: once connectionStatus is 'error', only connect() changes it.
C7_ErrorIsTerminal ==
  [][(connectionStatus = "error" /\ lastOp'.op # "connect")
       => connectionStatus' = "error"]_vars

\* C8: connect() called in 'error', or in 'disconnected' after an earlier
\* session has ended, moves connectionStatus to 'connecting' and opens a
\* new socket.
C8_ReconnectStartsNewAttempt ==
  [][(/\ lastOp'.op = "connect"
      /\ \/ lastOp'.pre = "error"
         \/ lastOp'.pre = "disconnected" /\ socketRef # 0)
       => /\ connectionStatus' = "connecting"
          /\ Len(sockets') = Len(sockets) + 1]_vars

\* C9: at most one chunk is being rendered (decoding or playing).
C9_OneRenderInFlight == Cardinality(renders) <= 1

\* C9 witness: two chunks arrived while a render was in flight
C9_Witness == renders # {} /\ Len(audioQueue) >= 2

\* C10: renders start in the order the chunks arrived, and a render in
\* flight is always the one started last: every chunk started before it has
\* completed (ended or failed) before it started.
C10_RenderOrder ==
  /\ \A i, j \in 1..Len(renderLog) : i < j => renderLog[i] < renderLog[j]
  /\ \A r \in renders :
       renderLog # << >> /\ r.chunk = renderLog[Len(renderLog)]

\* C10 witness: three chunks were rendered one after the other, the third
\* still in flight
C10_Witness == renderLog = <<1, 2, 3>> /\ renders # {}

\* C13: after n samples in total the processor has posted floor(n /
\* bufferSize) frames and holds the remaining n mod bufferSize samples
\* unposted; every posted frame holds exactly bufferSize values, the
\* encodings of the next bufferSize input samples in input order.
C13_FullFramesOnly ==
  bufferSize > 0 =>
    /\ Len(posted) = Len(fed) \div bufferSize
    /\ bufferIndex = Len(fed) % bufferSize
    /\ \A f \in 1..Len(posted) :
         /\ Len(posted[f]) = bufferSize
         /\ \A j \in 1..bufferSize :
              posted[f][j] = EncodeSample(fed[(f - 1) * bufferSize + j])

\* C13 witness: twice the frame size and one more sample were fed to a
\* processor with the largest frame size: two frames posted, one sample held
C13_Witness ==
  /\ bufferSize = MaxBufferSize
  /\ Len(fed) = 2 * bufferSize + 1
  /\ Len(posted) = 2
  /\ bufferIndex = 1

\* the Int16 value stored for the i-th sample fed: in a posted frame, or in
\* the buffer when its frame is not full yet
Stored(i) ==
  LET f == ((i - 1) \div bufferSize) + 1
      j == ((i - 1) % bufferSize) + 1
  IN IF f <= Len(posted) THEN posted[f][j] ELSE buffer[j]

\* C14: a sample at or below -1 is stored as -32768, one at or above 1 as
\* 32767, 0 as 0; a sample s between is stored as s * 32768 (s negative) or
\* s * 32767 (s non-negative) with the fraction cut off; every stored value
\* lies in -32768..32767.
C14_ClampAndScale ==
  /\ \A j \in DOMAIN buffer : buffer[j] \in -32768..32767
  /\ \A f \in 1..Len(posted) : \A j \in DOMAIN posted[f] :
       posted[f][j] \in -32768..32767
  /\ \A i \in 1..Len(fed) :
       LET k == fed[i].num
           v == Stored(i)
       IN ~fed[i].nan =>
            /\ k <= -SampleDen => v = -32768
            /\ k >= SampleDen => v = 32767
            /\ k = 0 => v = 0
            /\ (-SampleDen < k /\ k < 0) =>
                 (v - 1) * SampleDen < k * 32768 /\ k * 32768 <= v * SampleDen
            /\ (0 <= k /\ k < SampleDen) =>
                 v * SampleDen <= k * 32767 /\ k * 32767 < (v + 1) * SampleDen

\* C14 witness: a frame was posted that holds a sample below -1 and a
\* sample above 1, stored as the two ends of the 16-bit range
C14_Witness ==
  /\ Len(fed) >= 2
  /\ fed[1] = Sample(-(SampleDen + 2))
  /\ fed[2] = Sample(SampleDen + 2)
  /\ posted # << >> /\ posted[1] = <<-32768, 32767>>

\* C12: when the decode or the playback of a chunk fails (the render leaves
\* while still decoding), the next pending chunk is taken off the list and
\* its render starts; with nothing pending the status becomes 'idle'.
C12_FailureProceeds ==
  [][(\E r \in renders :
        /\ r.phase = "decoding"
        /\ \A r2 \in renders' : r2.chunk # r.chunk)
       => IF audioQueue = << >>
          THEN conversationStatus' = "idle" /\ renders' = {}
          ELSE /\ audioQueue' = Tail(audioQueue)
               /\ renders' = {[chunk |-> Head(audioQueue), phase |-> "decoding"]}]_vars

\* C15: an audio message is appended to a socket's send log only in a step
\* that starts with that socket OPEN, and a frame delivered while the socket
\* in socketRef is absent or not OPEN changes nothing but the count of
\* frames delivered.
C15_SendOnlyWhenOpen ==
  [][/\ \A s \in SocketIds :
          AudioSent(sockets', s) # AudioSent(sockets, s) => sockets[s].rs = "OPEN"
     /\ (nFrames' # nFrames /\ (socketRef = 0 \/ sockets[socketRef].rs # "OPEN"))
          => UNCHANGED <<connectionStatus, conversationStatus, sockets,
                         socketRef, closeTask, playbackCtx, playbackCloseThen,
                         audioQueue, isPlaying, renders, nChunks, rec,
                         mediaStreamRef, recCtxRef, nodeRef>>]_vars

\* C15 witness: a frame was delivered and the only socket never opened (it
\* is closed without a handshake): the frame was dropped
C15_Witness ==
  /\ nFrames >= 1
  /\ socketRef # 0
  /\ sockets[socketRef].rs = "CLOSED"
  /\ \A s \in SocketIds : sockets[s].sent = << >>

\* C16: a message without an audio chunk changes nothing (pending list,
\* rendering flag, both statuses, every ref), and the socket it came on is
\* still open for the messages after it.
C16_OtherMessageIgnored ==
  /\ [][lastOp'.op = "onmessageOther" => UNCHANGED progVars]_vars
  /\ [](lastOp.op = "onmessageOther" =>
          closeTask = 0 /\ \E s \in SocketIds : sockets[s].rs = "OPEN")

\* C16 witness: such a message arrived while a chunk was rendering and
\* another was pending
C16_Witness ==
  /\ lastOp.op = "onmessageOther"
  /\ renders # {}
  /\ audioQueue # << >>
  /\ conversationStatus = "speaking"

\* C17: the step of a socket's error event ends with connectionStatus
\* 'error', and the step of a socket's close event (after an error, after a
\* local close, or a remote close) ends with connectionStatus
\* 'disconnected'.
C17_SocketEventsSurface ==
  [][/\ (closeTask = 0 /\ closeTask' # 0) => connectionStatus' = "error"
     /\ (\/ closeTask # 0 /\ closeTask' = 0
         \/ /\ closeTask = 0 /\ closeTask' = 0
            /\ \E s \in SocketIds : sockets[s].rs # "CLOSED" /\ sockets'[s].rs = "CLOSED")
          => connectionStatus' = "disconnected"]_vars

\* C17 witness: the close event of a socket that had opened was delivered
\* (the remote side closed it, or it failed), with no disconnect() involved
C17_Witness ==
  /\ ~disc.called
  /\ connectionStatus = "disconnected"
  /\ closeTask = 0
  /\ \E s \in SocketIds : sockets[s].rs = "CLOSED" /\ sockets[s].sent # << >>

\* C18: toggleRecording() called in 'recording' on an open connection stops
\* capture, sets the status to 'processing' and sends a message on the
\* socket.
C18_StopSignalsEndOfTurn ==
  [][(/\ lastOp'.op = "toggleRecording" /\ lastOp'.pre = "recording"
      /\ socketRef # 0 /\ sockets[socketRef].rs = "OPEN")
       => /\ conversationStatus' = "processing"
          /\ nodeRef' = 0
          /\ Len(sockets'[socketRef].sent) > Len(sockets[socketRef].sent)]_vars

\* C20: the step in which a startRecording invocation fails (getUserMedia
\* or a later step) changes neither status, sends nothing and starts no
\* other invocation; a failed invocation stays failed and never has a
\* worklet node, so no frame comes from it.
C20_StartFailure ==
  [][\A p \in 1..Len(rec) :
       /\ (rec[p].pc \in {"gum", "addModule"} /\ rec'[p].pc = "failed")
            => /\ conversationStatus' = conversationStatus
               /\ connectionStatus' = connectionStatus
               /\ sockets' = sockets
               /\ nodeRef' = nodeRef
               /\ nFrames' = nFrames
               /\ Len(rec') = Len(rec)
               /\ rec'[p].node = "none"
       /\ rec[p].pc = "failed"
            => rec'[p].pc = "failed" /\ rec'[p].node = "none"]_vars

\* C20 witness: an invocation failed after the microphone was acquired, the
\* status is 'idle' and no frame was delivered
C20_Witness ==
  /\ conversationStatus = "idle"
  /\ nFrames = 0
  /\ Len(rec) = 1
  /\ rec[1].pc = "failed"
  /\ rec[1].stream = "live"

\* the connection is open: the socket in socketRef is OPEN
Connected == socketRef # 0 /\ sockets[socketRef].rs = "OPEN"

\* C11: a chunk on the pending list leaves it (to be rendered or dropped)
\* as long as the connection stays open, without a further chunk arriving:
\* from a state where chunk c is pending and n chunks have arrived, a state
\* is reached where c is not pending, or else the connection is no longer
\* open or another chunk has arrived.
C11_NoStarvation ==
  \A n \in 1..MaxChunks : \A c \in 1..n :
     (c \in Range(audioQueue) /\ nChunks = n /\ Connected)
       ~> (c \notin Range(audioQueue) \/ nChunks # n \/ ~Connected)

\* C19: whenever conversationStatus is 'processing' it later becomes 'idle'
\* or 'speaking', whatever the remote service does.  Stated for the sessions
\* the user has not ended: from 'processing' with no disconnect() called so
\* far, 'idle' or 'speaking' is reached unless disconnect() is called.
C19_ProcessingEnds ==
  (conversationStatus = "processing" /\ ~disc.called)
    ~> (conversationStatus \in {"idle", "speaking"} \/ disc.called)

\* C21: stopRecording called with no capture to stop (no worklet node, no
\* live stream, no running recording context in the refs), as disconnect()
\* calls it, changes no state of the recording side: conversationStatus, the
\* refs and the invocations are as before.
C21_StopWithoutCaptureIsNoOp ==
  [][(/\ lastOp'.op = "disconnect"
      /\ nodeRef = 0
      /\ (mediaStreamRef = 0 \/ rec[mediaStreamRef].stream # "live")
      /\ (recCtxRef = 0 \/ rec[recCtxRef].ctx # "running"))
       => UNCHANGED <<conversationStatus, rec, nodeRef, mediaStreamRef,
                      recCtxRef>>]_vars

\* C22: the config payload sent on open carries the session id and both
\* feature flags of the props the modal had when connect() was called.
C22_HandshakePayload ==
  config # << >> =>
    LET m  == config[1]
        at == closure[1].props
    IN /\ m.sessionId = at.sessionId
       /\ m.isRagEnabled = at.isRagEnabled
       /\ "isWebSearchEnabled" \in DOMAIN m
       /\ m.isWebSearchEnabled = at.isWebSearchEnabled

\* C23: a frame delivered while the socket in socketRef is OPEN adds exactly
\* one audio message, that frame's, at the end of the socket's send log;
\* no other step adds an audio message; so the audio messages on a socket
\* are distinct frames in the order of delivery.
C23_OneMessagePerFrameInOrder ==
  /\ [][/\ \A s \in SocketIds :
             LET a == AudioSent(sockets, s)
                 b == AudioSent(sockets', s)
             IN b # a => /\ nFrames' = nFrames + 1
                         /\ s = socketRef
                         /\ b = Append(a, AudioMsg(nFrames'))
        /\ (nFrames' = nFrames + 1 /\ Connected)
             => AudioSent(sockets', socketRef)
                  = Append(AudioSent(sockets, socketRef), AudioMsg(nFrames + 1))]_vars
  /\ [](\A s \in SocketIds :
          LET a == AudioSent(sockets, s)
          IN \A i, j \in 1..Len(a) : i < j => a[i].frame < a[j].frame)

\* C23 witness: two frames were delivered on an open socket, two messages
\* follow the handshake in that order
C23_Witness ==
  \E s \in SocketIds : sockets[s].sent = <<ConfigMsg, AudioMsg(1), AudioMsg(2)>>

\* C24: the step of a chunk's arrival appends the chunk to the pending list;
\* with no render in flight the head of the list is taken off, its render
\* starts and conversationStatus becomes 'speaking'; with a render in flight
\* only the list grows.
C24_ArrivalEnqueuesAndStarts ==
  [][nChunks' = nChunks + 1 =>
       LET q == Append(audioQueue, nChunks')
       IN IF renders = {}
          THEN /\ audioQueue' = Tail(q)
               /\ renders' = {[chunk |-> Head(q), phase |-> "decoding"]}
               /\ isPlaying'
               /\ conversationStatus' = "speaking"
          ELSE /\ audioQueue' = q
               /\ renders' = renders
               /\ isPlaying' = isPlaying
               /\ conversationStatus' = conversationStatus]_vars

\* C24 witness: the first chunk arrived after a recorded turn was stopped:
\* its render is in flight and the status went from 'processing' to
\* 'speaking'
C24_Witness ==
  /\ nChunks = 1
  /\ renders = {[chunk |-> 1, phase |-> "decoding"]}
  /\ conversationStatus = "speaking"
  /\ Len(rec) = 1 /\ rec[1].node = "closed"
  /\ ~disc.called

\* capture is active: a worklet node with an open port exists
CaptureActive == \E p \in 1..Len(rec) : rec[p].node = "open"

\* C25: capture is never active while a chunk is being rendered or chunks
\* are pending.
C25_TurnsNeverOverlap ==
  ~(CaptureActive /\ (renders # {} \/ audioQueue # << >>))

\* C26: whenever connectionStatus is not 'connected', conversationStatus is
\* 'idle' and capture is not active.  Stated for the sessions whose socket
\* had opened and in which disconnect() was not called (a remote close or a
\* failure during a turn).
C26_ConversationOnlyWhileConnected ==
  (/\ connectionStatus # "connected"
   /\ ~disc.called
   /\ \E s \in SocketIds : sockets[s].sent # << >>)
    => (conversationStatus = "idle" /\ ~CaptureActive)

\* C27: at most one startRecording invocation is starting (awaiting
\* getUserMedia or addModule) or capturing at any time, and the stream of a
\* capturing invocation is the one mediaStreamRef holds, which stopRecording
\* releases.
C27_OneCaptureAtATime ==
  /\ Cardinality({p \in 1..Len(rec) :
        rec[p].pc \in {"gum", "addModule"} \/ rec[p].node = "open"}) <= 1
  /\ \A p \in 1..Len(rec) :
       (rec[p].pc = "ok" /\ rec[p].stream = "live") => mediaStreamRef = p

\* C28: an invocation of startRecording that failed holds no live microphone
\* stream and no running recording context.
C28_FailureReleasesCapture ==
  \A p \in 1..Len(rec) :
     rec[p].pc = "failed" => rec[p].stream # "live" /\ rec[p].ctx # "running"

\* C29: a worklet node is present (audioWorkletNodeRef is set) exactly when
\* conversationStatus is 'recording'.
C29_CaptureAgreesWithStatus ==
  (nodeRef # 0) <=> (conversationStatus = "recording")

\* C30: whenever conversationStatus is 'idle' and connectionStatus is
\* 'connected', no render is in flight and the pending list is empty.
C30_IdleMeansQuiet ==
  (conversationStatus = "idle" /\ connectionStatus = "connected")
    => (renders = {} /\ audioQueue = << >>)

====
